---- MODULE Spec2Model ----
(***************************************************************************)
(* Model of the command handlers of the oxipng VS Code extension           *)
(* (src/src/extension.ts): oxipng.optimisePng, oxipng.optimisePngFolder    *)
(* and oxipng.optimisePngGitChanges.  Every handler is an async function;  *)
(* one action of the model is one run-to-completion segment of a handler,  *)
(* from the resolution of one awaited promise to the next await.           *)
(* Promises that the code starts but does not await (the writeFile calls)  *)
(* settle in actions of their own.                                         *)
(***************************************************************************)
EXTENDS Integers, Sequences, FiniteSets, TLC

\* ---------------------------------------------------------------- bounds
MaxFiles == 3       \* number of PNG paths that exist
MaxLen   == 2       \* longest byte buffer
MaxRepos == 2       \* longest gitApi.repositories list
MaxSize  == 12      \* largest byte count given to the savings strings
MaxConcFiles == 2   \* files in the lists of two invocations run together

\* ------------------------------------------------------- program constants
SingleLevel == 2    \* api.optimise(in_data, 2, ...) in oxipng.optimisePng
BatchLevel  == 1    \* api.optimise(in_data, 1, ...) in the two batch commands
StripSafe   == "safe"
TimerDelay  == 2000 \* setTimeout(resolve, 2000) in oxipng.optimisePngGitChanges

\* ------------------------------------------------------------ value sets
Invocations == {"t1", "t2"}
Single      == {"t1"}

\* a byte buffer (Uint8Array); .length is Len.  Files start out with bytes
\* 0 and the engine answers with bytes 1, so that the buffer a file was read
\* as and the buffer the engine returned for it differ even where their
\* lengths agree
Buffer(b, n) == [k \in 1..n |-> b]
RawData == {Buffer(0, n) : n \in 0..MaxLen}
OptData == {Buffer(1, n) : n \in 0..MaxLen}
Data    == RawData \cup OptData

\* what api.optimise can answer for the bytes d: a buffer one byte shorter
\* (an empty one for empty input) or one byte longer (as long, at MaxLen)
Min(a, b) == IF a < b THEN a ELSE b
Max(a, b) == IF a > b THEN a ELSE b
EngineOutputs(d) ==
    {Buffer(1, Max(Len(d) - 1, 0)), Buffer(1, Min(Len(d) + 1, MaxLen))}
EmptyData == << >>

Undefined == << >>
Some(v)   == << v >>

PathOf(k) == [dir |-> "/ws", base |-> "f" \o ToString(k) \o ".png"]
Paths     == {PathOf(k) : k \in 1..MaxFiles}
PathOrder == [k \in 1..MaxFiles |-> PathOf(k)]
Folder    == [dir |-> "/", base |-> "ws"]

\* vscode.Uri.fsPath of a path
fsPath(p) == p.dir \o "/" \o p.base
\* fileName(file), path.parse(file.fsPath).base
fileName(p) == p.base

RECURSIVE SubSeqs(_)
\* the sub-sequences of a sequence, order kept
SubSeqs(s) ==
    IF s = << >> THEN {<< >>}
    ELSE LET rest == SubSeqs(Tail(s))
         IN  rest \cup {<<Head(s)>> \o r : r \in rest}

\* the lists readDirectoryRecursivePNGs and gitModifiedPNGs can return
FileLists == SubSeqs(PathOrder)

\* the file system a run starts from: file k holds k % (MaxLen + 1) raw
\* bytes, so that the files differ in size and every size, zero included,
\* occurs
InitFileSystem ==
    [p \in Paths |-> Buffer(0, (CHOOSE k \in 1..MaxFiles : PathOf(k) = p) % (MaxLen + 1))]

\* vscode.Uri.file(s); its .fsPath is s again
UriFile(s)   == [fsPath |-> s]
RootOf(k)    == UriFile("/repo" \o ToString(k))
RepoOf(k)    == [rootUri |-> RootOf(k)]
RepoLists    == {[k \in 1..n |-> RepoOf(k)] : n \in 0..MaxRepos}
\* the SourceControl arguments the command can be given, or undefined
GitParams    == {Undefined} \cup {Some([rootUri |-> RootOf(k)]) : k \in 1..(MaxRepos + 1)}

InfoMsg(t)  == [kind |-> "info",  text |-> t]
ErrorMsg(t) == [kind |-> "error", text |-> t]

Ev(op, idx, arg) == [op |-> op, idx |-> idx, arg |-> arg]

VARIABLES
    fs,             \* the file system: path -> bytes
    gitApi,         \* gitExt?.getAPI(1) is defined
    repositories,   \* gitApi.repositories, as the git extension last had it
    cmd,            \* per invocation: the command that was invoked
    param,          \* per invocation: the handler's argument
    pc,             \* per invocation: the await the handler is suspended at
    files,          \* files / pngFiles
    i,              \* the loop variable
    pngSavingsIn,
    pngSavingsOut,
    in_data,
    out_data,
    repo,
    result,         \* what showQuickPick resolved to
    prompts,        \* the item lists showQuickPick was called with
    reports,        \* the progress.report calls
    messages,       \* showInformationMessage / showErrorMessage calls
    error,          \* the error the handler's promise was rejected with
    writes,         \* the writeFile calls and what became of them
    log             \* the calls of the handler, in order

vars == <<fs, gitApi, repositories, cmd, param, pc, files, i, pngSavingsIn,
          pngSavingsOut, in_data, out_data, repo, result, prompts, reports,
          messages, error, writes, log>>

envVars  == <<gitApi, repositories>>
selVars  == <<repo, result, prompts>>
accVars  == <<pngSavingsIn, pngSavingsOut>>

Init ==
    /\ fs = InitFileSystem
    /\ gitApi \in BOOLEAN
    /\ repositories = << >>
    /\ cmd = [p \in Invocations |-> "none"]
    /\ param = [p \in Invocations |-> Undefined]
    /\ pc = [p \in Invocations |-> "idle"]
    /\ files = [p \in Invocations |-> << >>]
    /\ i = [p \in Invocations |-> 0]
    /\ pngSavingsIn = [p \in Invocations |-> 0]
    /\ pngSavingsOut = [p \in Invocations |-> 0]
    /\ in_data = [p \in Invocations |-> EmptyData]
    /\ out_data = [p \in Invocations |-> EmptyData]
    /\ repo = [p \in Invocations |-> Undefined]
    /\ result = [p \in Invocations |-> Undefined]
    /\ prompts = [p \in Invocations |-> << >>]
    /\ reports = [p \in Invocations |-> << >>]
    /\ messages = [p \in Invocations |-> << >>]
    /\ error = [p \in Invocations |-> Undefined]
    /\ writes = [p \in Invocations |-> << >>]
    /\ log = [p \in Invocations |-> << >>]


Upd(f, p, v) == [f EXCEPT ![p] = v]

\* a variable declared once in activate and shared by every invocation
LocalShared(f, p, v) == [q \in DOMAIN f |-> v]

\* a let of the handler's body: every invocation has its own
Local(f, p, v) == [f EXCEPT ![p] = v]

\* ------------------------------------------------------- pure functions

Digit2(n) == IF n < 10 THEN "0" \o ToString(n) ELSE ToString(n)

\* ((num / den) * 100).toFixed(2) for num >= 0: a division by zero gives NaN
\* (0/0) or Infinity (n/0), which toFixed prints by name; any other value is
\* rounded to the nearest hundredth
PercentToFixed2(num, den) ==
    IF den = 0
    THEN IF num = 0 THEN "NaN" ELSE "Infinity"
    ELSE LET h == (2 * num * 10000 + den) \div (2 * den)
         IN  ToString(h \div 100) \o "." \o Digit2(h % 100)

savingsString(in_len, out_len) ==
    IF in_len >= out_len
    THEN ToString(out_len) \o " bytes (" \o PercentToFixed2(in_len - out_len, in_len) \o "% smaller)"
    ELSE ToString(out_len) \o " bytes (" \o PercentToFixed2(out_len - in_len, in_len) \o "% larger)"

\* the comparison written > where it is >=
savingsStringPercentStrict(in_len, out_len) ==
    IF in_len > out_len
    THEN "(" \o PercentToFixed2(in_len - out_len, in_len) \o "% smaller)"
    ELSE "(" \o PercentToFixed2(out_len - in_len, in_len) \o "% larger)"

savingsStringPercent(in_len, out_len) ==
    IF in_len >= out_len
    THEN "(" \o PercentToFixed2(in_len - out_len, in_len) \o "% smaller)"
    ELSE "(" \o PercentToFixed2(out_len - in_len, in_len) \o "% larger)"

\* "Optimised " + pngFilesCount + " PNGs " + savingsStringPercent(...)
SummaryText(count, tin, tout) ==
    "Optimised " \o ToString(count) \o " PNGs " \o savingsStringPercent(tin, tout)

\* a total that is assigned where it should be added to
AccumulateAssign(total, data) == Len(data)

\* pngSavingsIn += in_data.length, pngSavingsOut += out_data.length
Accumulate(total, data) == total + Len(data)

\* an increment given as a fraction of 1 where the progress API counts to 100
ProgressIncrementUnit(count) == <<1, count>>

\* { increment: 100 / pngFilesCount, ... } as the fraction <<100, count>>
ProgressIncrement(count) == <<100, count>>

StartingReport == [increment |-> <<0, 1>>, message |-> "Starting..."]

\* reports coalesced in pairs: one report of twice the increment for every
\* second file
PerFileReportsCoalesced(count, k, label) ==
    IF k % 2 = 1
    THEN << >>
    ELSE << [increment |-> <<200, count>>, message |-> label] >>

\* the progress.report calls at the head of iteration k of the loop
PerFileReports(count, k, label) ==
    << [increment |-> ProgressIncrement(count), message |-> label] >>

\* the log entries of a list of progress reports made for file k
ReportEvents(rs, k) == [j \in 1..Len(rs) |-> Ev("report", k, rs[j].message)]

\* vscode.workspace.fs.writeFile(file, out_data), not awaited
WriteCall(file, data) == [path |-> file, data |-> data, status |-> "pending"]

\* a handler that reports what it has done so far before it gives up
RejectedWithSummary(p, err) ==
    /\ pc' = Upd(pc, p, "rejected")
    /\ error' = Upd(error, p, Some(err))
    /\ messages' = Upd(messages, p, Append(messages[p],
            InfoMsg(SummaryText(i[p], pngSavingsIn[p], pngSavingsOut[p]))))

\* an awaited promise rejects: the exception leaves the loop, the
\* withProgress callback and the handler; nothing after the await runs
Rejected(p, err) ==
    /\ pc' = Upd(pc, p, "rejected")
    /\ error' = Upd(error, p, Some(err))
    /\ messages' = messages

\* what the rejected call throws: readFile knows the path it was given, the
\* engine is handed bytes only, and neither knows how many files are done
FileIOError(file) == [kind |-> "FileIOError", path |-> Some(file), completed |-> Undefined]
EngineError       == [kind |-> "EngineError", path |-> Undefined, completed |-> Undefined]
DiscoveryError    == [kind |-> "DiscoveryError", path |-> Some(Folder), completed |-> Undefined]
ChangeSetError    == [kind |-> "ChangeSetError", path |-> Undefined, completed |-> Undefined]

\* ------------------------------------------------- oxipng.optimisePng

InvokeOptimise(p) ==
    /\ pc[p] = "idle"
    /\ \E f \in Paths :
        /\ cmd' = Upd(cmd, p, "optimisePng")
        /\ param' = Upd(param, p, Some(f))
        /\ messages' = Upd(messages, p, Append(messages[p], InfoMsg("Called: " \o fsPath(f))))
        /\ log' = Upd(log, p, Append(log[p], Ev("readFile", 0, f)))
    /\ pc' = Upd(pc, p, "read")
    /\ UNCHANGED <<fs, envVars, files, i, accVars, in_data, out_data, selVars,
                   reports, error, writes>>

OptimiseReadDone(p) ==
    /\ cmd[p] = "optimisePng" /\ pc[p] = "read"
    /\ LET f == param[p][1]
           d == fs[f]
       IN  /\ in_data' = Upd(in_data, p, d)
           /\ log' = Upd(log, p, log[p] \o <<Ev("readDone", 0, d),
                                            Ev("optimise", 0, <<d, SingleLevel, StripSafe>>)>>)
    /\ pc' = Upd(pc, p, "engine")
    /\ UNCHANGED <<fs, envVars, cmd, param, files, i, accVars, out_data, selVars,
                   reports, messages, error, writes>>

OptimiseReadFail(p) ==
    /\ cmd[p] = "optimisePng" /\ pc[p] = "read"
    /\ Rejected(p, FileIOError(param[p][1]))
    /\ UNCHANGED <<fs, envVars, cmd, param, files, i, accVars, in_data, out_data,
                   selVars, reports, writes, log>>

OptimiseEngineDone(p) ==
    /\ cmd[p] = "optimisePng" /\ pc[p] = "engine"
    /\ \E out \in EngineOutputs(in_data[p]) :
        LET f == param[p][1]
        IN  /\ out_data' = Upd(out_data, p, out)
            /\ messages' = Upd(messages, p, messages[p] \o
                    << InfoMsg("Optimised: " \o fsPath(f)),
                       InfoMsg(savingsString(Len(in_data[p]), Len(out))) >>)
            /\ writes' = Upd(writes, p, Append(writes[p], WriteCall(f, out)))
            /\ log' = Upd(log, p, log[p] \o <<Ev("optimiseDone", 0, out),
                                             Ev("writeFile", 0, <<f, out>>)>>)
    /\ pc' = Upd(pc, p, "returned")
    /\ UNCHANGED <<fs, envVars, cmd, param, files, i, accVars, in_data, selVars,
                   reports, error>>

\* the write placed where it runs after a failed engine call as well
OptimiseEngineFailWrites(p) ==
    /\ cmd[p] = "optimisePng" /\ pc[p] = "engine"
    /\ Rejected(p, EngineError)
    /\ writes' = Upd(writes, p, Append(writes[p], WriteCall(param[p][1], out_data[p])))
    /\ log' = Upd(log, p, Append(log[p], Ev("writeFile", 0, <<param[p][1], out_data[p]>>)))
    /\ UNCHANGED <<fs, envVars, cmd, param, files, i, accVars, in_data, out_data,
                   selVars, reports>>

OptimiseEngineFail(p) ==
    /\ cmd[p] = "optimisePng" /\ pc[p] = "engine"
    /\ Rejected(p, EngineError)
    /\ UNCHANGED <<fs, envVars, cmd, param, files, i, accVars, in_data, out_data,
                   selVars, reports, writes, log>>

\* ------------------------------------------- oxipng.optimisePngFolder

InvokeOptimiseFolder(p) ==
    /\ pc[p] = "idle"
    /\ cmd' = Upd(cmd, p, "optimisePngFolder")
    /\ param' = Upd(param, p, Some(Folder))
    /\ pc' = Upd(pc, p, "discover")
    /\ UNCHANGED <<fs, envVars, files, i, accVars, in_data, out_data, selVars,
                   reports, messages, error, writes, log>>

\* the loop reading files[0] where it should read files[i]
FolderLoopHeadFirst(p, f, k, rp, lg) ==
    IF k < Len(f)
    THEN LET rs == PerFileReports(Len(f), k, fileName(f[1]))
         IN  /\ reports' = Upd(reports, p, rp \o rs)
             /\ log' = Upd(log, p, lg \o ReportEvents(rs, k) \o <<Ev("readFile", k, f[1])>>)
             /\ pc' = Upd(pc, p, "read")
    ELSE /\ reports' = Upd(reports, p, rp)
         /\ log' = Upd(log, p, lg)
         /\ pc' = Upd(pc, p, "await_progress")

\* the loop condition i < pngFilesCount - 1
FolderLoopHeadOffByOne(p, f, k, rp, lg) ==
    IF k < Len(f) - 1
    THEN LET rs == PerFileReports(Len(f), k, fileName(f[k + 1]))
         IN  /\ reports' = Upd(reports, p, rp \o rs)
             /\ log' = Upd(log, p, lg \o ReportEvents(rs, k) \o <<Ev("readFile", k, f[k + 1])>>)
             /\ pc' = Upd(pc, p, "read")
    ELSE /\ reports' = Upd(reports, p, rp)
         /\ log' = Upd(log, p, lg)
         /\ pc' = Upd(pc, p, "await_progress")

\* the head of the for loop with i = k: either the report and the readFile
\* call of file k, or the end of the withProgress callback
FolderLoopHead(p, f, k, rp, lg) ==
    IF k < Len(f)
    THEN LET rs == PerFileReports(Len(f), k, fileName(f[k + 1]))
         IN  /\ reports' = Upd(reports, p, rp \o rs)
             /\ log' = Upd(log, p, lg \o ReportEvents(rs, k) \o <<Ev("readFile", k, f[k + 1])>>)
             /\ pc' = Upd(pc, p, "read")
    ELSE /\ reports' = Upd(reports, p, rp)
         /\ log' = Upd(log, p, lg)
         /\ pc' = Upd(pc, p, "await_progress")

FolderDiscoverDone(p) ==
    /\ cmd[p] = "optimisePngFolder" /\ pc[p] = "discover"
    /\ \E f \in FileLists :
        /\ files' = Upd(files, p, f)
        /\ FolderLoopHead(p, f, 0, Append(reports[p], StartingReport),
                          Append(log[p], Ev("starting", 0, StartingReport.message)))
    /\ i' = Upd(i, p, 0)
    /\ pngSavingsIn' = Local(pngSavingsIn, p, 0)
    /\ pngSavingsOut' = Local(pngSavingsOut, p, 0)
    /\ UNCHANGED <<fs, envVars, cmd, param, in_data, out_data, selVars, messages,
                   error, writes>>

FolderDiscoverFail(p) ==
    /\ cmd[p] = "optimisePngFolder" /\ pc[p] = "discover"
    /\ Rejected(p, DiscoveryError)
    /\ UNCHANGED <<fs, envVars, cmd, param, files, i, accVars, in_data, out_data,
                   selVars, reports, writes, log>>

\* the engine started twice for one file, with only one call awaited
FolderReadDoneTwice(p) ==
    /\ cmd[p] = "optimisePngFolder" /\ pc[p] = "read"
    /\ LET d == fs[files[p][i[p] + 1]]
       IN  /\ in_data' = Upd(in_data, p, d)
           /\ log' = Upd(log, p, log[p] \o <<Ev("readDone", i[p], d),
                                            Ev("optimise", i[p], <<d, BatchLevel, StripSafe>>),
                                            Ev("optimise", i[p], <<d, BatchLevel, StripSafe>>)>>)
    /\ pc' = Upd(pc, p, "engine")
    /\ UNCHANGED <<fs, envVars, cmd, param, files, i, accVars, out_data, selVars,
                   reports, messages, error, writes>>

FolderReadDone(p) ==
    /\ cmd[p] = "optimisePngFolder" /\ pc[p] = "read"
    /\ LET d == fs[files[p][i[p] + 1]]
       IN  /\ in_data' = Upd(in_data, p, d)
           /\ log' = Upd(log, p, log[p] \o <<Ev("readDone", i[p], d),
                                            Ev("optimise", i[p], <<d, BatchLevel, StripSafe>>)>>)
    /\ pc' = Upd(pc, p, "engine")
    /\ UNCHANGED <<fs, envVars, cmd, param, files, i, accVars, out_data, selVars,
                   reports, messages, error, writes>>

FolderReadFail(p) ==
    /\ cmd[p] = "optimisePngFolder" /\ pc[p] = "read"
    /\ Rejected(p, FileIOError(files[p][i[p] + 1]))
    /\ UNCHANGED <<fs, envVars, cmd, param, files, i, accVars, in_data, out_data,
                   selVars, reports, writes, log>>

FolderEngineDone(p) ==
    /\ cmd[p] = "optimisePngFolder" /\ pc[p] = "engine"
    /\ \E out \in EngineOutputs(in_data[p]) :
        LET f == files[p][i[p] + 1]
        IN  /\ out_data' = Upd(out_data, p, out)
            /\ pngSavingsIn' = Local(pngSavingsIn, p, Accumulate(pngSavingsIn[p], in_data[p]))
            /\ pngSavingsOut' = Local(pngSavingsOut, p, Accumulate(pngSavingsOut[p], out))
            /\ writes' = Upd(writes, p, Append(writes[p], WriteCall(f, out)))
            /\ FolderLoopHead(p, files[p], i[p] + 1, reports[p],
                              log[p] \o <<Ev("optimiseDone", i[p], out),
                                          Ev("record", i[p], <<Len(in_data[p]), Len(out)>>),
                                          Ev("writeFile", i[p], <<f, out>>)>>)
    /\ i' = Upd(i, p, i[p] + 1)
    /\ UNCHANGED <<fs, envVars, cmd, param, files, in_data, selVars, messages, error>>

FolderEngineFail(p) ==
    /\ cmd[p] = "optimisePngFolder" /\ pc[p] = "engine"
    /\ Rejected(p, EngineError)
    /\ UNCHANGED <<fs, envVars, cmd, param, files, i, accVars, in_data, out_data,
                   selVars, reports, writes, log>>

FolderSummary(p) ==
    /\ cmd[p] = "optimisePngFolder" /\ pc[p] = "await_progress"
    /\ messages' = Upd(messages, p, Append(messages[p],
            InfoMsg(SummaryText(Len(files[p]), pngSavingsIn[p], pngSavingsOut[p]))))
    /\ pc' = Upd(pc, p, "returned")
    /\ UNCHANGED <<fs, envVars, cmd, param, files, i, accVars, in_data, out_data,
                   selVars, reports, error, writes, log>>

\* --------------------------------------- oxipng.optimisePngGitChanges

\* gitApi.repositories.map((repo) => repo.rootUri?.fsPath)
QuickPickItems(repos) == [k \in 1..Len(repos) |-> repos[k].rootUri.fsPath]

\* a lookup that answers with the first open repository, whatever the root
getRepositoryFirst(repos, uri) ==
    IF repos = << >> THEN Undefined ELSE Some(repos[1])

\* gitApi.getRepository(uri) ?? undefined: the open repository with that root
getRepository(repos, uri) ==
    LET m == {k \in 1..Len(repos) : repos[k].rootUri = uri}
    IN  IF m = {} THEN Undefined ELSE Some(repos[CHOOSE k \in m : TRUE])

\* the first repository taken whenever there is one
NoTargetBranchFirst(repos) ==
    IF Len(repos) = 0 THEN [prompt |-> FALSE, repo |-> Undefined]
    ELSE [prompt |-> FALSE, repo |-> Some(repos[1])]

\* the zero / one / many branch taken when no SourceControl is given
NoTargetBranch(repos) ==
    IF Len(repos) = 0 THEN [prompt |-> FALSE, repo |-> Undefined]
    ELSE IF Len(repos) = 1 THEN [prompt |-> FALSE, repo |-> Some(repos[1])]
    ELSE [prompt |-> TRUE, repo |-> Undefined]

\* if (!repo) { showErrorMessage("No repository found"); return; }
\* and otherwise the call of gitModifiedPNGs(repo)
RepoCheck(r) ==
    IF r = Undefined
    THEN [pc |-> "returned", repo |-> r, msgs |-> <<ErrorMsg("No repository found")>>,
          prompts |-> << >>, evs |-> << >>]
    ELSE [pc |-> "modified", repo |-> r, msgs |-> << >>,
          prompts |-> << >>, evs |-> <<Ev("gitModifiedPNGs", 0, r[1])>>]

\* the handler without the return after "Git extension isn't enabled"
SelectSyncNoReturn(api, repos, prm) ==
    LET rest == IF prm = Undefined
                THEN LET b == NoTargetBranch(repos)
                     IN  IF b.prompt
                         THEN [pc |-> "pick", repo |-> Undefined, msgs |-> << >>,
                               prompts |-> <<QuickPickItems(repos)>>,
                               evs |-> <<Ev("repositories", 0, repos),
                                         Ev("showQuickPick", 0, QuickPickItems(repos))>>]
                         ELSE [RepoCheck(b.repo) EXCEPT !.evs = <<Ev("repositories", 0, repos)>> \o @]
                ELSE [RepoCheck(getRepository(repos, prm[1].rootUri))
                        EXCEPT !.evs = <<Ev("getRepository", 0, prm[1].rootUri)>> \o @]
    IN  IF api THEN rest
        ELSE [rest EXCEPT !.msgs = <<ErrorMsg("Git extension isn't enabled")>> \o @]

\* the handler with the repository looked for before the API is tested
SelectSyncRepoFirst(api, repos, prm) ==
    IF prm = Undefined /\ repos = << >>
    THEN [RepoCheck(Undefined) EXCEPT !.evs = <<Ev("repositories", 0, repos)>> \o @]
    ELSE IF ~api
    THEN [pc |-> "returned", repo |-> Undefined,
          msgs |-> <<ErrorMsg("Git extension isn't enabled")>>,
          prompts |-> << >>, evs |-> << >>]
    ELSE IF prm = Undefined
    THEN LET b == NoTargetBranch(repos)
         IN  IF b.prompt
             THEN [pc |-> "pick", repo |-> Undefined, msgs |-> << >>,
                   prompts |-> <<QuickPickItems(repos)>>,
                   evs |-> <<Ev("repositories", 0, repos),
                             Ev("showQuickPick", 0, QuickPickItems(repos))>>]
             ELSE [RepoCheck(b.repo) EXCEPT !.evs = <<Ev("repositories", 0, repos)>> \o @]
    ELSE [RepoCheck(getRepository(repos, prm[1].rootUri))
            EXCEPT !.evs = <<Ev("getRepository", 0, prm[1].rootUri)>> \o @]

\* the handler up to its first await or its return
SelectSync(api, repos, prm) ==
    IF ~api
    THEN [pc |-> "returned", repo |-> Undefined,
          msgs |-> <<ErrorMsg("Git extension isn't enabled")>>,
          prompts |-> << >>, evs |-> << >>]
    ELSE IF prm = Undefined
    THEN LET b == NoTargetBranch(repos)
         IN  IF b.prompt
             THEN [pc |-> "pick", repo |-> Undefined, msgs |-> << >>,
                   prompts |-> <<QuickPickItems(repos)>>,
                   evs |-> <<Ev("repositories", 0, repos),
                             Ev("showQuickPick", 0, QuickPickItems(repos))>>]
             ELSE [RepoCheck(b.repo) EXCEPT !.evs = <<Ev("repositories", 0, repos)>> \o @]
    ELSE [RepoCheck(getRepository(repos, prm[1].rootUri))
            EXCEPT !.evs = <<Ev("getRepository", 0, prm[1].rootUri)>> \o @]

InvokeOptimiseGitChanges(p) ==
    /\ pc[p] = "idle"
    /\ \E prm \in GitParams, repos \in RepoLists :
        /\ repositories' = repos
        /\ LET s == SelectSync(gitApi, repositories', prm)
           IN  /\ param' = Upd(param, p, prm)
               /\ pc' = Upd(pc, p, s.pc)
               /\ repo' = Upd(repo, p, s.repo)
               /\ messages' = Upd(messages, p, messages[p] \o s.msgs)
               /\ prompts' = Upd(prompts, p, prompts[p] \o s.prompts)
               /\ log' = Upd(log, p, log[p] \o s.evs)
    /\ cmd' = Upd(cmd, p, "optimisePngGitChanges")
    /\ UNCHANGED <<fs, gitApi, files, i, accVars, in_data, out_data, result,
                   reports, error, writes>>

\* showQuickPick resolves: with one of the items, or with undefined when the
\* user dismisses it
GitPickDone(p) ==
    /\ cmd[p] = "optimisePngGitChanges" /\ pc[p] = "pick"
    /\ LET items == prompts[p][Len(prompts[p])]
       IN  \E r \in {Undefined} \cup {Some(items[k]) : k \in 1..Len(items)} :
            LET r0 == IF r # Undefined
                      THEN getRepository(repositories, UriFile(r[1]))
                      ELSE Undefined
                s  == RepoCheck(r0)
                e  == IF r # Undefined
                      THEN <<Ev("getRepository", 0, UriFile(r[1]))>>
                      ELSE << >>
            IN  /\ result' = Upd(result, p, r)
                /\ repo' = Upd(repo, p, s.repo)
                /\ pc' = Upd(pc, p, s.pc)
                /\ messages' = Upd(messages, p, messages[p] \o s.msgs)
                /\ log' = Upd(log, p, log[p] \o <<Ev("picked", 0, r)>> \o e \o s.evs)
    /\ UNCHANGED <<fs, envVars, cmd, param, files, i, accVars, in_data, out_data,
                   prompts, reports, error, writes>>

\* the whole path where its last component is meant
pathBaseFull(p) == fsPath(p)

\* path.parse(file.fsPath).base
pathBase(p) == p.base

GitLoopHead(p, f, k, rp, lg) ==
    IF k < Len(f)
    THEN LET rs == PerFileReports(Len(f), k, pathBase(f[k + 1]))
         IN  /\ reports' = Upd(reports, p, rp \o rs)
             /\ log' = Upd(log, p, lg \o ReportEvents(rs, k) \o <<Ev("readFile", k, f[k + 1])>>)
             /\ pc' = Upd(pc, p, "read")
    ELSE /\ reports' = Upd(reports, p, rp)
         /\ log' = Upd(log, p, lg)
         /\ pc' = Upd(pc, p, "await_progress")

GitModifiedDone(p) ==
    /\ cmd[p] = "optimisePngGitChanges" /\ pc[p] = "modified"
    /\ \E f \in FileLists :
        /\ files' = Upd(files, p, f)
        /\ GitLoopHead(p, f, 0, Append(reports[p], StartingReport),
                       Append(log[p], Ev("starting", 0, StartingReport.message)))
    /\ i' = Upd(i, p, 0)
    /\ pngSavingsIn' = Local(pngSavingsIn, p, 0)
    /\ pngSavingsOut' = Local(pngSavingsOut, p, 0)
    /\ UNCHANGED <<fs, envVars, cmd, param, in_data, out_data, selVars, messages,
                   error, writes>>

GitModifiedFail(p) ==
    /\ cmd[p] = "optimisePngGitChanges" /\ pc[p] = "modified"
    /\ Rejected(p, ChangeSetError)
    /\ UNCHANGED <<fs, envVars, cmd, param, files, i, accVars, in_data, out_data,
                   selVars, reports, writes, log>>

GitReadDone(p) ==
    /\ cmd[p] = "optimisePngGitChanges" /\ pc[p] = "read"
    /\ LET d == fs[files[p][i[p] + 1]]
       IN  /\ in_data' = Upd(in_data, p, d)
           /\ log' = Upd(log, p, log[p] \o <<Ev("readDone", i[p], d),
                                            Ev("optimise", i[p], <<d, BatchLevel, StripSafe>>)>>)
    /\ pc' = Upd(pc, p, "engine")
    /\ UNCHANGED <<fs, envVars, cmd, param, files, i, accVars, out_data, selVars,
                   reports, messages, error, writes>>

GitReadFail(p) ==
    /\ cmd[p] = "optimisePngGitChanges" /\ pc[p] = "read"
    /\ Rejected(p, FileIOError(files[p][i[p] + 1]))
    /\ UNCHANGED <<fs, envVars, cmd, param, files, i, accVars, in_data, out_data,
                   selVars, reports, writes, log>>

\* the engine answers; the handler starts the 2000 ms timer and awaits it
GitEngineDone(p) ==
    /\ cmd[p] = "optimisePngGitChanges" /\ pc[p] = "engine"
    /\ \E out \in EngineOutputs(in_data[p]) :
        /\ out_data' = Upd(out_data, p, out)
        /\ log' = Upd(log, p, log[p] \o <<Ev("optimiseDone", i[p], out),
                                         Ev("setTimeout", i[p], TimerDelay)>>)
    /\ pc' = Upd(pc, p, "timer")
    /\ UNCHANGED <<fs, envVars, cmd, param, files, i, accVars, in_data, selVars,
                   reports, messages, error, writes>>

GitEngineFail(p) ==
    /\ cmd[p] = "optimisePngGitChanges" /\ pc[p] = "engine"
    /\ Rejected(p, EngineError)
    /\ UNCHANGED <<fs, envVars, cmd, param, files, i, accVars, in_data, out_data,
                   selVars, reports, writes, log>>

GitTimerDone(p) ==
    /\ cmd[p] = "optimisePngGitChanges" /\ pc[p] = "timer"
    /\ LET f == files[p][i[p] + 1]
           out == out_data[p]
       IN  /\ pngSavingsIn' = Local(pngSavingsIn, p, Accumulate(pngSavingsIn[p], in_data[p]))
           /\ pngSavingsOut' = Local(pngSavingsOut, p, Accumulate(pngSavingsOut[p], out))
           /\ writes' = Upd(writes, p, Append(writes[p], WriteCall(f, out)))
           /\ GitLoopHead(p, files[p], i[p] + 1, reports[p],
                          log[p] \o <<Ev("record", i[p], <<Len(in_data[p]), Len(out)>>),
                                      Ev("writeFile", i[p], <<f, out>>)>>)
    /\ i' = Upd(i, p, i[p] + 1)
    /\ UNCHANGED <<fs, envVars, cmd, param, files, in_data, out_data, selVars,
                   messages, error>>

GitSummary(p) ==
    /\ cmd[p] = "optimisePngGitChanges" /\ pc[p] = "await_progress"
    /\ messages' = Upd(messages, p, Append(messages[p],
            InfoMsg(SummaryText(Len(files[p]), pngSavingsIn[p], pngSavingsOut[p]))))
    /\ pc' = Upd(pc, p, "returned")
    /\ UNCHANGED <<fs, envVars, cmd, param, files, i, accVars, in_data, out_data,
                   selVars, reports, error, writes, log>>

\* ------------------------------------- the writeFile promises settle

WriteDone(p) ==
    \E k \in 1..Len(writes[p]) :
        /\ writes[p][k].status = "pending"
        /\ fs' = [fs EXCEPT ![writes[p][k].path] = writes[p][k].data]
        /\ writes' = [writes EXCEPT ![p][k].status = "done"]
        /\ UNCHANGED <<envVars, cmd, param, pc, files, i, accVars, in_data, out_data,
                       selVars, reports, messages, error, log>>

\* the rejection is unhandled: no await, no catch
WriteFail(p) ==
    \E k \in 1..Len(writes[p]) :
        /\ writes[p][k].status = "pending"
        /\ writes' = [writes EXCEPT ![p][k].status = "failed"]
        /\ UNCHANGED <<fs, envVars, cmd, param, pc, files, i, accVars, in_data, out_data,
                       selVars, reports, messages, error, log>>

Step(p) ==
    \/ InvokeOptimise(p)
    \/ OptimiseReadDone(p)
    \/ OptimiseReadFail(p)
    \/ OptimiseEngineDone(p)
    \/ OptimiseEngineFail(p)
    \/ InvokeOptimiseFolder(p)
    \/ FolderDiscoverDone(p)
    \/ FolderDiscoverFail(p)
    \/ FolderReadDone(p)
    \/ FolderReadFail(p)
    \/ FolderEngineDone(p)
    \/ FolderEngineFail(p)
    \/ FolderSummary(p)
    \/ InvokeOptimiseGitChanges(p)
    \/ GitPickDone(p)
    \/ GitModifiedDone(p)
    \/ GitModifiedFail(p)
    \/ GitReadDone(p)
    \/ GitReadFail(p)
    \/ GitEngineDone(p)
    \/ GitEngineFail(p)
    \/ GitTimerDone(p)
    \/ GitSummary(p)
    \/ WriteDone(p)
    \/ WriteFail(p)

Next == \E p \in Single : Step(p)

Spec == Init /\ [][Next]_vars

\* the continuations of the awaits of invocation p: a pending read, engine
\* call, timer, discovery, change-set query or prompt settles and the
\* handler runs on to its next await
Resume(p) ==
    \/ OptimiseReadDone(p)
    \/ OptimiseReadFail(p)
    \/ OptimiseEngineDone(p)
    \/ OptimiseEngineFail(p)
    \/ FolderDiscoverDone(p)
    \/ FolderDiscoverFail(p)
    \/ FolderReadDone(p)
    \/ FolderReadFail(p)
    \/ FolderEngineDone(p)
    \/ FolderEngineFail(p)
    \/ FolderSummary(p)
    \/ GitPickDone(p)
    \/ GitModifiedDone(p)
    \/ GitModifiedFail(p)
    \/ GitReadDone(p)
    \/ GitReadFail(p)
    \/ GitEngineDone(p)
    \/ GitEngineFail(p)
    \/ GitTimerDone(p)
    \/ GitSummary(p)

\* two invocations at a time: the second is started after the first; the
\* lists the selection components answer with are the first files of the
\* workspace, MaxConcFiles of them at most in the two lists together and one
\* at most in the list of the second; the single-file command is given the
\* first file and the change-set command no argument
ConcBound ==
    /\ pc["t1"] = "idle" => pc["t2"] = "idle"
    /\ Len(files["t1"]) + Len(files["t2"]) <= MaxConcFiles
    /\ Len(files["t2"]) <= 1
    /\ \A p \in Invocations :
        /\ files[p] = SubSeq(PathOrder, 1, Len(files[p]))
        /\ cmd[p] = "optimisePng" => param[p] = Some(PathOrder[1])
        /\ cmd[p] = "optimisePngGitChanges" => param[p] = Undefined

NextConc ==
    \E p \in Invocations :
        \/ InvokeOptimise(p) /\ ConcBound'
        \/ OptimiseReadDone(p) /\ ConcBound'
        \/ OptimiseReadFail(p) /\ ConcBound'
        \/ OptimiseEngineDone(p) /\ ConcBound'
        \/ OptimiseEngineFail(p) /\ ConcBound'
        \/ InvokeOptimiseFolder(p) /\ ConcBound'
        \/ FolderDiscoverDone(p) /\ ConcBound'
        \/ FolderDiscoverFail(p) /\ ConcBound'
        \/ FolderReadDone(p) /\ ConcBound'
        \/ FolderReadFail(p) /\ ConcBound'
        \/ FolderEngineDone(p) /\ ConcBound'
        \/ FolderEngineFail(p) /\ ConcBound'
        \/ FolderSummary(p) /\ ConcBound'
        \/ InvokeOptimiseGitChanges(p) /\ ConcBound'
        \/ GitPickDone(p) /\ ConcBound'
        \/ GitModifiedDone(p) /\ ConcBound'
        \/ GitModifiedFail(p) /\ ConcBound'
        \/ GitReadDone(p) /\ ConcBound'
        \/ GitReadFail(p) /\ ConcBound'
        \/ GitEngineDone(p) /\ ConcBound'
        \/ GitEngineFail(p) /\ ConcBound'
        \/ GitTimerDone(p) /\ ConcBound'
        \/ GitSummary(p) /\ ConcBound'
        \/ WriteDone(p) /\ ConcBound'
        \/ WriteFail(p) /\ ConcBound'

SpecConc == Init /\ [][NextConc]_vars

\* every awaited promise of a handler eventually settles
SpecFair == Init /\ [][Next]_vars /\ \A p \in Single : WF_vars(Resume(p))

\* ------------------------------------------------------------ properties

Batch(p) == cmd[p] \in {"optimisePngFolder", "optimisePngGitChanges"}

\* the file list is there and the withProgress callback has started
Enumerated(p) == Batch(p) /\ reports[p] # << >>

\* the batch commands show informational messages for the summary only
Summaries(p) == {k \in 1..Len(messages[p]) : messages[p][k].kind = "info"}

\* Done: the handler returned after its summary
BatchDone(p) == Batch(p) /\ pc[p] = "returned" /\ Summaries(p) # {}

\* Aborted: a read or an engine call of the loop rejected
Aborted(p) ==
    /\ Batch(p)
    /\ pc[p] = "rejected"
    /\ error[p][1].kind \in {"FileIOError", "EngineError"}

Evs(p, op)  == SelectSeq(log[p], LAMBDA e : e.op = op)
Args(p, op) == [n \in 1..Len(Evs(p, op)) |-> Evs(p, op)[n].arg]
EventsAt(p, ops, k) ==
    {n \in 1..Len(log[p]) : log[p][n].op \in ops /\ log[p][n].idx = k}
Prefix(s, n) == SubSeq(s, 1, n)

RECURSIVE SumLen(_)
SumLen(s) == IF s = << >> THEN 0 ELSE Len(Head(s)) + SumLen(Tail(s))

\* C1: in a batch, the write of file i has completed before the progress
\* report, the read or the engine call of file i+1 begins: while a write is
\* pending, no step of a later file has been taken.
C1_WriteCompletesBeforeNextFile ==
    \A p \in Invocations : Batch(p) =>
        \A k \in 1..Len(writes[p]) :
            writes[p][k].status = "pending" =>
                \A n \in 1..Len(log[p]) :
                    log[p][n].op \in {"report", "readFile", "optimise"}
                        => log[p][n].idx <= k - 1

\* C2: a failed read, engine call or write of the file at position k aborts
\* the batch: no file after k is read, optimised or written, and the batch
\* does not end in Done.
C2_FailureAbortsBatch ==
    \A p \in Invocations : Batch(p) =>
        /\ Aborted(p) =>
                \A n \in 1..Len(log[p]) : log[p][n].idx <= i[p]
        /\ \A k \in 1..Len(writes[p]) :
                writes[p][k].status = "failed" =>
                    /\ \A n \in 1..Len(log[p]) :
                           log[p][n].op \in {"readFile", "optimise", "writeFile"}
                               => log[p][n].idx <= k - 1
                    /\ ~BatchDone(p)

C4_ZeroOneManyBranch ==
    \A p \in Invocations :
        (cmd[p] = "optimisePngGitChanges" /\ gitApi /\ param[p] = Undefined) =>
            LET repos == Args(p, "repositories")[1]
                n     == Len(repos)
                used  == Args(p, "gitModifiedPNGs")
            IN  /\ n = 0 =>
                    /\ prompts[p] = << >>
                    /\ pc[p] = "returned"
                    /\ repo[p] = Undefined
                    /\ messages[p] = <<ErrorMsg("No repository found")>>
                    /\ used = << >>
                /\ n = 1 =>
                    /\ prompts[p] = << >>
                    /\ repo[p] = Some(repos[1])
                    /\ used = <<repos[1]>>
                /\ n >= 2 =>
                    /\ prompts[p] = << [k \in 1..n |-> repos[k].rootUri.fsPath] >>
                    /\ pc[p] = "pick" => (repo[p] = Undefined /\ used = << >>)
                    /\ (pc[p] # "pick" /\ result[p] # Undefined) =>
                        /\ repo[p] # Undefined
                        /\ repo[p][1].rootUri.fsPath = result[p][1]
                        /\ \E k \in 1..n : repos[k] = repo[p][1]
                        /\ used = <<repo[p][1]>>

\* two repositories, the user picks the second, and the batch runs on it
C4_Witness ==
    \E p \in Invocations :
        /\ cmd[p] = "optimisePngGitChanges" /\ gitApi /\ param[p] = Undefined
        /\ Len(repositories) = 2
        /\ result[p] = Some(RootOf(2).fsPath)
        /\ repo[p] = Some(RepoOf(2))
        /\ BatchDone(p)

\* C5: the prompt dismissed without a selection is a silent no-op: no
\* message is shown and no file is read, optimised or written.
C5_DismissIsSilent ==
    \A p \in Invocations :
        (/\ cmd[p] = "optimisePngGitChanges"
         /\ prompts[p] # << >>
         /\ pc[p] # "pick"
         /\ result[p] = Undefined) =>
            /\ messages[p] = << >>
            /\ writes[p] = << >>
            /\ Args(p, "readFile") = << >>

\* C6: the totals are the sums of the input and output lengths of exactly
\* the files recorded so far, each recorded once and in order; at Done every
\* enumerated file is covered and the count shown is the number of files
\* processed.
C6_AccumulationHasNoLoss ==
    \A p \in Invocations : Enumerated(p) =>
        LET ins  == Args(p, "readDone")
            outs == Args(p, "optimiseDone")
            recs == Evs(p, "record")
        IN  /\ Len(recs) = i[p]
            /\ \A n \in 1..Len(recs) :
                   /\ recs[n].idx = n - 1
                   /\ recs[n].arg = <<Len(ins[n]), Len(outs[n])>>
            /\ pngSavingsIn[p] = SumLen(Prefix(ins, i[p]))
            /\ pngSavingsOut[p] = SumLen(Prefix(outs, i[p]))
            /\ BatchDone(p) =>
                   /\ i[p] = Len(files[p])
                   /\ Len(ins) = Len(files[p]) /\ Len(outs) = Len(files[p])
                   /\ \A n \in 1..Len(files[p]) : Evs(p, "readFile")[n].arg = files[p][n]
                   /\ messages[p][Len(messages[p])] =
                          InfoMsg(SummaryText(Len(recs), SumLen(ins), SumLen(outs)))

\* a batch of three files is Done with both totals counted
C6_Witness ==
    \E p \in Invocations :
        /\ BatchDone(p)
        /\ Len(files[p]) = 3
        /\ pngSavingsIn[p] > 0 /\ pngSavingsOut[p] > pngSavingsIn[p]

\* C7: whenever the summary of a batch or the savings message of the
\* single-file command is shown, every file whose output length was counted
\* has had those bytes written: its writeFile call has succeeded.
C7_CountedBytesArePersisted ==
    \A p \in Invocations :
        /\ BatchDone(p) =>
            /\ Len(writes[p]) = Len(files[p])
            /\ \A k \in 1..Len(writes[p]) : writes[p][k].status = "done"
        /\ (cmd[p] = "optimisePng" /\ pc[p] = "returned") =>
            /\ Len(writes[p]) = 1
            /\ writes[p][1].status = "done"

\* the summaries that the contract allows when the input total is zero
NeutralSummaries(n) ==
    { InfoMsg("Optimised " \o ToString(n) \o " PNGs (0.00% smaller)"),
      InfoMsg("Optimised " \o ToString(n) \o " PNGs (no data)") }

\* C8: a batch of zero files goes straight to Done without an error and
\* reports a count of 0, and the ratio shown for a zero input total is a
\* neutral one, never NaN or Infinity.
C8_ZeroInputIsNeutral ==
    \A p \in Invocations :
        /\ (Enumerated(p) /\ files[p] = << >>) =>
            /\ pc[p] \in {"await_progress", "returned"}
            /\ error[p] = Undefined
            /\ Args(p, "readFile") = << >>
        /\ (BatchDone(p) /\ pngSavingsIn[p] = 0) =>
            messages[p][Len(messages[p])] \in NeutralSummaries(Len(files[p]))

RECURSIVE CumTimes(_, _)
\* the sum of the increments reported, times c
CumTimes(rs, c) ==
    IF rs = << >> THEN 0
    ELSE (Head(rs).increment[1] * c) \div Head(rs).increment[2] + CumTimes(Tail(rs), c)

\* C9 as stated: when the read of task i starts the observer has been told
\* i/fileCount of the whole, and the whole only after the last file has been
\* processed.
C9_ProgressBeforeTaskIsIOverCount ==
    \A p \in Invocations : (Batch(p) /\ pc[p] = "read") =>
        /\ CumTimes(reports[p], Len(files[p])) = 100 * i[p]
        /\ CumTimes(reports[p], Len(files[p])) < 100 * Len(files[p])

\* C9 as amended: when the read of task i starts the observer has been told
\* (i+1)/fileCount of the whole, so the whole has been reported when the read
\* of the last file starts; an empty batch reports nothing but "Starting...".
C9_ProgressBeforeTaskIsNextOverCount ==
    \A p \in Invocations : Enumerated(p) =>
        LET cum == CumTimes(reports[p], Len(files[p]))
        IN  /\ pc[p] \in {"read", "engine", "timer"} => cum = 100 * (i[p] + 1)
            /\ (pc[p] = "read" /\ i[p] = Len(files[p]) - 1) => cum = 100 * Len(files[p])
            /\ files[p] = << >> => cum = 0

\* the read of the last of three files is about to start
C9_Witness ==
    \E p \in Invocations :
        /\ Batch(p) /\ pc[p] = "read"
        /\ Len(files[p]) = 3 /\ i[p] = 2
        /\ Len(Args(p, "readDone")) = 2

\* C10: every file gets a progress report of its own: the report of file k
\* is made once, after the engine call of file k-1 has returned and before
\* the read of file k, and a batch that is Done has made as many per-file
\* reports as it has files, labelled with their names in order.
C10_OneReportPerFile ==
    \A p \in Invocations : Batch(p) =>
        /\ \A n \in 1..Len(log[p]) :
            LET k == log[p][n].idx IN
            /\ log[p][n].op = "report" =>
                /\ EventsAt(p, {"report"}, k) = {n}
                /\ k > 0 => \E m \in EventsAt(p, {"optimiseDone"}, k - 1) : m < n
                /\ \A m \in EventsAt(p, {"readFile"}, k) : m > n
            /\ log[p][n].op = "readFile" => \E m \in EventsAt(p, {"report"}, k) : m < n
        /\ BatchDone(p) =>
            /\ Len(reports[p]) = Len(files[p]) + 1
            /\ reports[p][1] = StartingReport
            /\ \A k \in 1..Len(files[p]) :
                /\ reports[p][k + 1].message = files[p][k].base
                /\ EventsAt(p, {"report"}, k - 1) # {}

\* a batch of three files is Done with its three reports made
C10_Witness ==
    \E p \in Invocations :
        /\ BatchDone(p)
        /\ Len(files[p]) = 3
        /\ Len(Evs(p, "report")) = 3

\* the calls that touch a file
FileEvents(p) ==
    {n \in 1..Len(log[p]) : log[p][n].op \in {"readFile", "optimise", "writeFile"}}

\* the run ended in the selection phase: the folder could not be listed, the
\* git API is missing, or no repository was resolved
DiscoveryFailed(p) ==
    /\ cmd[p] = "optimisePngFolder" /\ pc[p] = "rejected"
    /\ error[p][1].kind = "DiscoveryError"
IntegrationUnavailable(p) == cmd[p] = "optimisePngGitChanges" /\ ~gitApi
NoRepository(p) ==
    /\ cmd[p] = "optimisePngGitChanges" /\ gitApi
    /\ pc[p] = "returned" /\ repo[p] = Undefined

C12_IntegrationUnavailableFirst ==
    \A p \in Invocations : IntegrationUnavailable(p) =>
        /\ pc[p] = "returned"
        /\ messages[p] = <<ErrorMsg("Git extension isn't enabled")>>
        /\ prompts[p] = << >>
        /\ repo[p] = Undefined
        /\ log[p] = << >>

\* no git API, while two repositories are open and the target is the second
C12_Witness ==
    \E p \in Invocations :
        /\ IntegrationUnavailable(p)
        /\ param[p] = Some([rootUri |-> RootOf(2)])
        /\ Len(repositories) = 2
        /\ pc[p] = "returned"

\* C13: with the git API there and an explicit target, the target's root is
\* looked up directly, however many repositories are open: the list is not
\* read by the handler, no prompt is shown, the repository used is the open
\* one with that root, and if there is none the command shows "No repository
\* found" and touches no file.
C13_ExplicitTargetResolvedDirectly ==
    \A p \in Invocations :
        (cmd[p] = "optimisePngGitChanges" /\ gitApi /\ param[p] # Undefined) =>
            LET root == param[p][1].rootUri
                hits == {k \in 1..Len(repositories) : repositories[k].rootUri = root}
            IN  /\ prompts[p] = << >>
                /\ result[p] = Undefined
                /\ Args(p, "repositories") = << >>
                /\ Args(p, "getRepository") = <<root>>
                /\ hits # {} =>
                    /\ repo[p] # Undefined
                    /\ repo[p][1].rootUri = root
                    /\ Args(p, "gitModifiedPNGs") = <<repo[p][1]>>
                    /\ messages[p] = << >> \/ BatchDone(p)
                /\ hits = {} =>
                    /\ repo[p] = Undefined
                    /\ pc[p] = "returned"
                    /\ messages[p] = <<ErrorMsg("No repository found")>>
                    /\ FileEvents(p) = {}
                    /\ writes[p] = << >>

\* two repositories are open, the target is the second, the batch runs on it
C13_Witness ==
    \E p \in Invocations :
        /\ cmd[p] = "optimisePngGitChanges" /\ gitApi
        /\ param[p] = Some([rootUri |-> RootOf(2)])
        /\ Len(repositories) = 2
        /\ repo[p] = Some(RepoOf(2))
        /\ pc[p] = "read"

\* ------------------------------------- the savings strings on their own

\* the pairs of sizes the two functions are applied to
SavingsInputs ==
    ((0..MaxSize) \X (0..MaxSize)) \cup {<<1000, 800>>, <<800, 1000>>}

InitSavings ==
    /\ fs = InitFileSystem
    /\ gitApi \in BOOLEAN
    /\ repositories = << >>
    /\ cmd = [p \in Invocations |-> "none"]
    /\ param = [p \in Invocations |-> Undefined]
    /\ pc = [p \in Invocations |-> "idle"]
    /\ files = [p \in Invocations |-> << >>]
    /\ i = [p \in Invocations |-> 0]
    /\ \E io \in SavingsInputs :
        /\ pngSavingsIn = [p \in Invocations |-> io[1]]
        /\ pngSavingsOut = [p \in Invocations |-> io[2]]
    /\ in_data = [p \in Invocations |-> EmptyData]
    /\ out_data = [p \in Invocations |-> EmptyData]
    /\ repo = [p \in Invocations |-> Undefined]
    /\ result = [p \in Invocations |-> Undefined]
    /\ prompts = [p \in Invocations |-> << >>]
    /\ reports = [p \in Invocations |-> << >>]
    /\ messages = [p \in Invocations |-> << >>]
    /\ error = [p \in Invocations |-> Undefined]
    /\ writes = [p \in Invocations |-> << >>]
    /\ log = [p \in Invocations |-> << >>]

\* savingsString and savingsStringPercent applied to the same pair
ApplySavings(p) ==
    /\ cmd[p] = "none" /\ pc[p] = "idle"
    /\ messages' = Upd(messages, p,
            << InfoMsg(savingsString(pngSavingsIn[p], pngSavingsOut[p])),
               InfoMsg(savingsStringPercent(pngSavingsIn[p], pngSavingsOut[p])) >>)
    /\ pc' = Upd(pc, p, "returned")
    /\ UNCHANGED <<fs, envVars, cmd, param, files, i, accVars, in_data, out_data,
                   selVars, reports, error, writes, log>>

NextSavings == \E p \in Single : ApplySavings(p)

SpecSavings == InitSavings /\ [][NextSavings]_vars

\* |a - b| / a * 100 in hundredths, rounded to the nearest
NearestHundredths(a, b) ==
    LET d == IF a >= b THEN a - b ELSE b - a
        q == (10000 * d) \div a
        r == (10000 * d) % a
    IN  IF 2 * r >= a THEN q + 1 ELSE q

\* n hundredths written with two decimals
TwoDecimals(n) ==
    ToString(n \div 100) \o "." \o ToString((n % 100) \div 10) \o ToString(n % 10)

\* C14: for a positive input size the label is "smaller" exactly when the
\* input is at least the output and "larger" otherwise, the percentage is
\* |in - out| / in * 100 to two decimals, and the single-file string and the
\* batch string carry the same label and percentage; (1000, 800) gives
\* "20.00% smaller" and (800, 1000) gives "25.00% larger".
C14_SavingsRatio ==
    \A p \in Invocations :
        (cmd[p] = "none" /\ pc[p] = "returned" /\ pngSavingsIn[p] > 0) =>
            LET a     == pngSavingsIn[p]
                b     == pngSavingsOut[p]
                label == IF a >= b THEN "smaller" ELSE "larger"
                ratio == "(" \o TwoDecimals(NearestHundredths(a, b)) \o "% " \o label \o ")"
            IN  /\ messages[p][1].text = ToString(b) \o " bytes " \o ratio
                /\ messages[p][2].text = ratio
                /\ (a = 1000 /\ b = 800) => messages[p][2].text = "(20.00% smaller)"
                /\ (a = 800 /\ b = 1000) => messages[p][2].text = "(25.00% larger)"
                /\ a = b => messages[p][2].text = "(0.00% smaller)"

\* both strings for (1000, 800)
C14_Witness ==
    \E p \in Invocations :
        /\ pngSavingsIn[p] = 1000 /\ pngSavingsOut[p] = 800
        /\ messages[p] = << InfoMsg("800 bytes (20.00% smaller)"),
                            InfoMsg("(20.00% smaller)") >>

\* the positions in the log of the calls op
Positions(p, op) == {n \in 1..Len(log[p]) : log[p][n].op = op}

\* C15: a batch has at most one engine call outstanding: the calls are made
\* for the files in order, one per file, and the call for a file is made
\* only after the call for the file before it has returned.
C15_OneEngineCallAtATime ==
    \A p \in Invocations : Batch(p) =>
        LET calls == Evs(p, "optimise")
            rets  == Evs(p, "optimiseDone")
        IN  /\ Len(calls) - Len(rets) \in {0, 1}
            /\ \A n \in 1..Len(calls) : calls[n].idx = n - 1
            /\ \A n \in 1..Len(rets) : rets[n].idx = n - 1
            /\ \A c \in Positions(p, "optimise") :
                   \A k \in 0..(log[p][c].idx - 1) :
                       \E r \in Positions(p, "optimiseDone") :
                           log[p][r].idx = k /\ r < c
            /\ \A r \in Positions(p, "optimiseDone") :
                   \E c \in Positions(p, "optimise") :
                       log[p][c].idx = log[p][r].idx /\ c < r

\* the third engine call of a batch is outstanding, the first two returned
C15_Witness ==
    \E p \in Invocations :
        /\ Batch(p) /\ pc[p] = "engine"
        /\ Len(Evs(p, "optimise")) = 3
        /\ Len(Evs(p, "optimiseDone")) = 2

\* f is one-to-one
Distinct(f) == \A m, n \in 1..Len(f) : m # n => f[m] # f[n]

\* C17: a batch reads, optimises and writes every path of its list at most
\* once; a write that has succeeded stays in place, and a batch that is
\* rejected has issued writes for the files completed before the failure
\* and no other.
C17_EachFileOnceNoRollback ==
    \A p \in Invocations : Batch(p) =>
        /\ Distinct(Args(p, "readFile"))
        /\ Distinct([n \in 1..Len(Evs(p, "optimise")) |-> Evs(p, "optimise")[n].idx])
        /\ Distinct([n \in 1..Len(writes[p]) |-> writes[p][n].path])
        /\ Len(Evs(p, "writeFile")) = Len(writes[p])
        /\ \A n \in 1..Len(writes[p]) :
            /\ writes[p][n].path = files[p][n]
            /\ Evs(p, "writeFile")[n].arg = <<writes[p][n].path, writes[p][n].data>>
            /\ writes[p][n].status = "done" => fs[writes[p][n].path] = writes[p][n].data
        /\ Aborted(p) => Len(writes[p]) = i[p]

\* the read of the third file fails after the first two were overwritten
C17_Witness ==
    \E p \in Invocations :
        /\ Aborted(p)
        /\ error[p][1].kind = "FileIOError"
        /\ i[p] = 2
        /\ \A n \in 1..2 : writes[p][n].status = "done"

\* C20: the single-file command issues at most one write, after the read and
\* the engine call have both succeeded, to the path it was given and with
\* the bytes the engine returned for the bytes read; if the read or the
\* engine call fails it issues no write, leaves the file as it was and shows
\* neither the "Optimised" nor the savings message.
C20_SingleFileWrite ==
    \A p \in Invocations : cmd[p] = "optimisePng" =>
        LET f == param[p][1] IN
        /\ Len(writes[p]) <= 1
        /\ writes[p] # << >> =>
            /\ pc[p] = "returned"
            /\ Len(Evs(p, "readDone")) = 1 /\ Len(Evs(p, "optimiseDone")) = 1
            /\ writes[p][1].path = f
            /\ writes[p][1].data = Args(p, "optimiseDone")[1]
            /\ Args(p, "optimise")[1] = <<Args(p, "readDone")[1], SingleLevel, StripSafe>>
            /\ Args(p, "readFile") = <<f>>
        /\ pc[p] = "rejected" =>
            /\ writes[p] = << >>
            /\ Args(p, "writeFile") = << >>
            /\ fs[f] = InitFileSystem[f]
            /\ messages[p] = <<InfoMsg("Called: " \o fsPath(f))>>

\* the engine call of the single-file command fails
C20_Witness ==
    \E p \in Invocations :
        /\ cmd[p] = "optimisePng" /\ pc[p] = "rejected"
        /\ error[p] = Some(EngineError)
        /\ Len(in_data[p]) = 2

\* the loop index starts at 0, stays within the list and a batch is Done
\* only with the index at the count and a read, an engine call and a write
\* issued, in this order, for every file
IndexInvariant ==
    \A p \in Invocations :
        /\ ~Enumerated(p) => i[p] = 0
        /\ Batch(p) => i[p] \in 0..Len(files[p])
        /\ BatchDone(p) =>
            /\ i[p] = Len(files[p])
            /\ \A k \in 0..(Len(files[p]) - 1) :
                \E r \in EventsAt(p, {"readFile"}, k) :
                    /\ log[p][r].arg = files[p][k + 1]
                    /\ \E e \in EventsAt(p, {"optimise"}, k) :
                        /\ r < e
                        /\ \E w \in EventsAt(p, {"writeFile"}, k) : e < w

\* a step leaves the loop index or adds one to it
IndexStep == \A p \in Invocations : i'[p] \in {i[p], i[p] + 1}

\* C18: when every awaited read, engine call, timer and prompt settles, a
\* batch whose file list is there ends Done or Aborted; its index starts at
\* 0 and goes up by one at a time, and Done comes only with the index at the
\* file count, after every file was read, optimised and had its write issued.
C18_BatchTerminates ==
    /\ []IndexInvariant
    /\ [][IndexStep]_vars
    /\ \A p \in Single : Enumerated(p) ~> (BatchDone(p) \/ Aborted(p))

\* a change-set batch of two files is Done, both timers having fired
C18_Witness ==
    \E p \in Single :
        /\ BatchDone(p) /\ cmd[p] = "optimisePngGitChanges"
        /\ Len(files[p]) = 2 /\ i[p] = 2
        /\ Len(Evs(p, "setTimeout")) = 2

\* what belongs to invocation p alone
Locals(p) ==
    <<cmd[p], param[p], pc[p], files[p], i[p], pngSavingsIn[p], pngSavingsOut[p],
      in_data[p], out_data[p], repo[p], result[p], prompts[p], reports[p],
      messages[p], error[p], writes[p], log[p]>>

\* the count and the totals of p are those of its own list, reads and engine
\* results, and its summary is computed from them
OwnTotals(p) ==
    LET ins  == Args(p, "readDone")
        outs == Args(p, "optimiseDone")
    IN  /\ Len(Evs(p, "record")) = i[p]
        /\ i[p] <= Len(files[p])
        /\ pngSavingsIn[p] = SumLen(Prefix(ins, i[p]))
        /\ pngSavingsOut[p] = SumLen(Prefix(outs, i[p]))
        /\ \A n \in 1..Len(ins) : Evs(p, "readFile")[n].arg = files[p][n]
        /\ BatchDone(p) =>
               messages[p] = <<InfoMsg(SummaryText(Len(files[p]), SumLen(ins), SumLen(outs)))>>

\* a step changes what belongs to one invocation at most
OneInvocationSteps ==
    \A p, q \in Invocations :
        (p # q /\ Locals(p)' # Locals(p)) => Locals(q)' = Locals(q)

\* C16: with two invocations interleaved in any way, the file count and the
\* totals of each are determined by its own file list, reads and engine
\* results, its summary is the one these give, and no step of one invocation
\* changes anything that belongs to the other.
C16_NoSharedBatchState ==
    /\ [](\A p \in Invocations : Enumerated(p) => OwnTotals(p))
    /\ [][OneInvocationSteps]_vars

\* two batches are in their loops at once, with different totals
C16_Witness ==
    /\ Enumerated("t1") /\ Enumerated("t2")
    /\ pc["t1"] \in {"read", "engine", "timer", "await_progress"}
    /\ pc["t2"] \in {"read", "engine", "timer", "await_progress"}
    /\ pngSavingsIn["t1"] > 0 /\ pngSavingsIn["t2"] > 0
    /\ pngSavingsOut["t1"] # pngSavingsOut["t2"]

LoopOps == {"starting", "report", "readFile", "readDone", "optimise",
            "optimiseDone", "record", "writeFile"}

\* the steps of the Processing loop of p, in the order taken
LoopLog(p) == SelectSeq(log[p], LAMBDA e : e.op \in LoopOps)

\* one of a and b is the beginning of the other
Compatible(a, b) ==
    LET n == Min(Len(a), Len(b)) IN SubSeq(a, 1, n) = SubSeq(b, 1, n)

\* p and q have the same list and were given the same bytes by the reads
\* and by the engine, as far as both have got
SameInputs(p, q) ==
    /\ Enumerated(p) /\ Enumerated(q)
    /\ files[p] = files[q]
    /\ Compatible(Args(p, "readDone"), Args(q, "readDone"))
    /\ Compatible(Args(p, "optimiseDone"), Args(q, "optimiseDone"))

====
